---- MODULE Spec2Model ----
(***************************************************************************)
(* jbundle: the build pipeline (src/src/main.rs run_build, driven through  *)
(* src/src/progress.rs Pipeline), the launcher stub text                   *)
(* (src/src/pack/stub.rs generate) and the shell state machine that the    *)
(* generated stub runs on the end-user machine.                            *)
(*                                                                         *)
(* Three specifications share the module:                                  *)
(*   Spec          one run of run_build                                    *)
(*   SpecLauncher  invocations of one generated artifact on one cache      *)
(*   SpecStub      generate, the artifact layout and the stub's tail read  *)
(***************************************************************************)
EXTENDS Integers, Sequences, FiniteSets, TLC

VARIABLES
    \* ---- run_build (main.rs) and Pipeline (progress.rs)
    config,      \* BuildConfig fields run_build branches on
    pc,          \* position in run_build
    total,       \* Pipeline.total
    current,     \* Pipeline.current
    is_tty,      \* Pipeline.is_tty
    step,        \* the StepHandle held by `step` (its stage name), "none" when none is open
    log,         \* what Pipeline wrote to stderr, in order
    temp_dir,    \* the TempDir of run_build: "none", "live", "removed"
    crac_path,   \* Option<PathBuf> handed to packing: "unset", "None", "Some"
    result,      \* run_build's return: "running", "Ok", "Err"
    errs,        \* history: the fallible calls that returned Err, in order
    \* ---- the generated stub at run time (stub.rs lines 10-31)
    fs,          \* the keyed cache directory: entry -> "absent", "partial", "full"
    archive,     \* the order of the payload's tar members
    lpc,         \* invocation -> position in the stub script
    tarpos,      \* invocation -> number of tar members its tar has finished
    ltrace,      \* history: invocation -> the launcher states it went through
    lview,       \* history: invocation -> what the cache entry was when exec ran
    \* ---- generate and the artifact layout
    spc,         \* position in the pack / first-run sequence
    hash,        \* the payload_hash handed to generate
    args,        \* the jvm_args handed to generate
    payload,     \* the payload bytes P
    stub,        \* generate's return value
    artifact,    \* the bytes of the written artifact file
    tail_out,    \* what `tail -c "$PAYLOAD_SIZE" "$0"` wrote to the pipe
    \* ---- main (main.rs), the build command
    cli,             \* the fields of Command::Build as parsed
    project_config,  \* what load_project_config returned
    host,            \* Target::current()
    resolved,        \* the BuildConfig main builds; <<>> before
    \* ---- run_clean (main.rs) and the cache root it removes
    home,            \* whether BuildConfig::cache_dir() succeeds
    disk,            \* the entries at and under the cache root; {} when absent
    clog             \* history: each run_clean, and whether the cache was written between

bvars == <<config, pc, total, current, is_tty, step, log, temp_dir, crac_path, result, errs>>
lvars == <<fs, archive, lpc, tarpos, ltrace, lview>>
svars == <<spc, hash, args, payload, stub, artifact, tail_out>>
mvars == <<cli, project_config, host, resolved>>
cvars == <<home, disk, clog>>
vars == <<bvars, lvars, svars, mvars, cvars>>

(***************************************************************************)
(* Pipeline (progress.rs)                                                  *)
(***************************************************************************)

\* The names run_build passes to start_step.
UseJar == "Using pre-built JAR"
Detect == "Detecting build system"
BuildJar == "Building uberjar"
ShrinkStage == "Shrinking JAR"
JdkStage == "Downloading JDK"
JdepsStage == "Analyzing module dependencies"
JlinkStage == "Creating minimal runtime (jlink)"
CracStage == "Creating CRaC checkpoint"
PackStage == "Packing binary"

MutCalculateSteps(is_jar_input, shrink, crac) ==
    LET base == IF is_jar_input THEN 1 ELSE 2
        shrink_step == IF shrink THEN 1 ELSE 0
    IN base + shrink_step + 4

calculate_steps(is_jar_input, shrink, crac) ==
    LET base == IF is_jar_input THEN 1 ELSE 2
        shrink_step == IF shrink THEN 1 ELSE 0
        crac_step == IF crac THEN 1 ELSE 0
    IN base + shrink_step + 4 + crac_step

\* Pipeline::new
PipelineNew(total_steps) ==
    /\ total' = total_steps
    /\ current' = 0
    /\ \E t \in BOOLEAN : is_tty' = t

\* The label is rendered before the counter is bumped.
MutStartStep(name) ==
    /\ current' = current + 1
    /\ log' = Append(log, <<"start", name, current, total, is_tty>>)
    /\ step' = name
    /\ UNCHANGED <<total, is_tty>>

\* The terminal is looked at again at every stage.
MutStartStepTty(name) ==
    /\ current' = current + 1
    /\ \E t \in BOOLEAN : is_tty' = t
    /\ log' = Append(log, <<"start", name, current + 1, total, is_tty'>>)
    /\ step' = name
    /\ UNCHANGED total

\* Pipeline::start_step: bump the counter, render "[current/total] name".
start_step(name) ==
    /\ current' = current + 1
    /\ log' = Append(log, <<"start", name, current + 1, total, is_tty>>)
    /\ step' = name
    /\ UNCHANGED <<total, is_tty>>

\* Pipeline::finish_step on the handle held in `step`, appended to `l`.
finish_step(l, handle, text) == Append(l, <<"finish_step", handle, text>>)

\* Pipeline::finish: the closing banner.
finish(l) == Append(l, <<"finish", is_tty>>)

(***************************************************************************)
(* run_build (main.rs)                                                     *)
(***************************************************************************)

\* The TempDir is leaked: leaving run_build removes nothing.
MutDropTemp == temp_dir

\* Leaving run_build drops its locals: a live TempDir removes its directory.
DropTemp == IF temp_dir = "live" THEN "removed" ELSE temp_dir

\* The stage whose start_step is the last thing written: its handle has not
\* been given to finish_step yet.
OpenStage ==
    IF Len(log) > 0 /\ log[Len(log)][1] = "start" THEN log[Len(log)][2] ELSE "none"

\* History: `call` returned Err, inside stage OpenStage, with Len(log) events written.
Failure(call) == [call |-> call, stage |-> OpenStage, at |-> Len(log)]

\* `?` on an Err: return it at once.  `call` names the call that failed.
Propagate(call) ==
    /\ pc' = "done"
    /\ result' = "Err"
    /\ errs' = Append(errs, Failure(call))
    /\ temp_dir' = DropTemp
    /\ UNCHANGED <<config, total, current, is_tty, step, log, crac_path>>

\* A step of run_build that only moves on and writes to the log.
Advance(to, newlog) ==
    /\ pc' = to
    /\ log' = newlog
    /\ UNCHANGED <<config, total, current, is_tty, step, temp_dir, crac_path, result, errs>>

\* start_step(name) as a step of run_build.
Start(name, to) ==
    /\ start_step(name)
    /\ pc' = to
    /\ UNCHANGED <<config, temp_dir, crac_path, result, errs>>

LauncherIdle == UNCHANGED lvars
StubIdle == UNCHANGED svars
MainIdle == UNCHANGED mvars
CleanIdle == UNCHANGED cvars
BuildFrame == LauncherIdle /\ StubIdle /\ MainIdle /\ CleanIdle

NewPipeline ==
    /\ pc = "new"
    /\ PipelineNew(calculate_steps(config.is_jar_input, config.shrink, config.crac))
    /\ pc' = "archive"
    /\ UNCHANGED <<config, step, log, temp_dir, crac_path, result, errs>>
    /\ BuildFrame

StartUseJar ==
    /\ pc = "archive" /\ config.is_jar_input
    /\ Start(UseJar, "use_jar")
    /\ BuildFrame

FinishUseJar ==
    /\ pc = "use_jar"
    /\ Advance("shrink_branch", finish_step(log, step, "JAR"))
    /\ BuildFrame

StartDetect ==
    /\ pc = "archive" /\ ~config.is_jar_input
    /\ Start(Detect, "detect")
    /\ BuildFrame

DetectBuildSystem ==
    /\ pc = "detect"
    /\ \/ Advance("build_start", finish_step(log, step, "system"))
       \/ Propagate("detect_build_system")
    /\ BuildFrame

StartBuild ==
    /\ pc = "build_start"
    /\ Start(BuildJar, "build")
    /\ BuildFrame

BuildUberjar ==
    /\ pc = "build"
    /\ \/ Advance("shrink_branch", finish_step(log, step, "jar"))
       \/ Propagate("build_uberjar")
    /\ BuildFrame

StartShrink ==
    /\ pc = "shrink_branch" /\ config.shrink
    /\ Start(ShrinkStage, "shrink")
    /\ BuildFrame

NoShrink ==
    /\ pc = "shrink_branch" /\ ~config.shrink
    /\ Advance("resolve_java", log)
    /\ BuildFrame

\* A shrink failure falls back to the unshrunk archive.
MutShrinkJar ==
    /\ pc = "shrink"
    /\ \/ Advance("resolve_java", finish_step(log, step, "reduced"))
       \/ Advance("resolve_java", finish_step(log, step, "no reduction (using original)"))
       \/ /\ pc' = "resolve_java"
          /\ log' = finish_step(log, step, "no reduction (using original)")
          /\ errs' = Append(errs, Failure("shrink_jar"))
          /\ UNCHANGED <<config, total, current, is_tty, step, temp_dir, crac_path, result>>
    /\ BuildFrame

ShrinkJar ==
    /\ pc = "shrink"
    /\ \/ Advance("resolve_java", finish_step(log, step, "reduced"))
       \/ Advance("resolve_java", finish_step(log, step, "no reduction (using original)"))
       \/ Propagate("shrink_jar")
    /\ BuildFrame

ResolveJavaVersion ==
    /\ pc = "resolve_java"
    /\ \/ Advance("jdk_start", log)
       \/ Propagate("resolve_java_version")
    /\ BuildFrame

StartJdk ==
    /\ pc = "jdk_start"
    /\ Start(JdkStage, "jdk")
    /\ BuildFrame

EnsureJdk ==
    /\ pc = "jdk"
    /\ \/ Advance("jdeps_start", finish_step(log, step, "ready"))
       \/ Propagate("ensure_jdk")
    /\ BuildFrame

StartJdeps ==
    /\ pc = "jdeps_start"
    /\ Start(JdepsStage, "tempdir")
    /\ BuildFrame

TempDir ==
    /\ pc = "tempdir"
    /\ \/ /\ pc' = "jdeps"
          /\ temp_dir' = "live"
          /\ UNCHANGED <<config, total, current, is_tty, step, log, crac_path, result, errs>>
       \/ Propagate("tempdir")
    /\ BuildFrame

\* The module-analysis stage is left without finish_step.
MutDetectModules ==
    /\ pc = "jdeps"
    /\ \/ Advance("jlink_start", log)
       \/ Propagate("detect_modules")
    /\ BuildFrame

DetectModules ==
    /\ pc = "jdeps"
    /\ \/ Advance("jlink_start", finish_step(log, step, "modules"))
       \/ Propagate("detect_modules")
    /\ BuildFrame

StartJlink ==
    /\ pc = "jlink_start"
    /\ Start(JlinkStage, "jlink")
    /\ BuildFrame

\* The checkpoint branch is lost: packing follows jlink directly.
MutCreateRuntime ==
    /\ pc = "jlink"
    /\ \/ /\ pc' = "pack_start"
          /\ log' = finish_step(log, step, "done")
          /\ crac_path' = "None"
          /\ UNCHANGED <<config, total, current, is_tty, step, temp_dir, result, errs>>
       \/ Propagate("create_runtime")
    /\ BuildFrame

CreateRuntime ==
    /\ pc = "jlink"
    /\ \/ Advance("crac_branch", finish_step(log, step, "done"))
       \/ Propagate("create_runtime")
    /\ BuildFrame

StartCrac ==
    /\ pc = "crac_branch" /\ config.crac
    /\ Start(CracStage, "crac")
    /\ BuildFrame

NoCrac ==
    /\ pc = "crac_branch" /\ ~config.crac
    /\ pc' = "pack_start"
    /\ crac_path' = "None"
    /\ UNCHANGED <<config, total, current, is_tty, step, log, temp_dir, result, errs>>
    /\ BuildFrame

\* match crac::create_checkpoint(..): the Err arm finishes the stage as skipped.
CreateCheckpoint ==
    /\ pc = "crac"
    /\ \/ /\ pc' = "crac_meta"
          /\ UNCHANGED <<log, crac_path, errs>>
       \/ /\ pc' = "pack_start"
          /\ log' = finish_step(log, step, "skipped")
          /\ crac_path' = "None"
          /\ errs' = Append(errs, Failure("create_checkpoint"))
    /\ UNCHANGED <<config, total, current, is_tty, step, temp_dir, result>>
    /\ BuildFrame

\* The Ok arm: std::fs::metadata(&cp)?.len(), then finish_step and Some(cp).
CheckpointMetadata ==
    /\ pc = "crac_meta"
    /\ \/ /\ pc' = "pack_start"
          /\ log' = finish_step(log, step, "checkpoint")
          /\ crac_path' = "Some"
          /\ UNCHANGED <<config, total, current, is_tty, step, temp_dir, result, errs>>
       \/ Propagate("checkpoint metadata")
    /\ BuildFrame

StartPack ==
    /\ pc = "pack_start"
    /\ Start(PackStage, "pack")
    /\ BuildFrame

CreateBinary ==
    /\ pc = "pack"
    /\ \/ Advance("pack_meta", log)
       \/ Propagate("create_binary")
    /\ BuildFrame

\* The closing banner is written although the size of the output cannot be read.
MutOutputMetadata ==
    /\ pc = "pack_meta"
    /\ \/ Advance("finish", finish_step(log, step, "output"))
       \/ /\ pc' = "done"
          /\ result' = "Err"
          /\ errs' = Append(errs, Failure("output metadata"))
          /\ temp_dir' = DropTemp
          /\ log' = finish(log)
          /\ UNCHANGED <<config, total, current, is_tty, step, crac_path>>
    /\ BuildFrame

OutputMetadata ==
    /\ pc = "pack_meta"
    /\ \/ Advance("finish", finish_step(log, step, "output"))
       \/ Propagate("output metadata")
    /\ BuildFrame

\* pipeline.finish(..); Ok(()): the banner, then the locals are dropped.
Finish ==
    /\ pc = "finish"
    /\ pc' = "done"
    /\ log' = finish(log)
    /\ result' = "Ok"
    /\ temp_dir' = DropTemp
    /\ UNCHANGED <<config, total, current, is_tty, step, crac_path, errs>>
    /\ BuildFrame

BuildInit ==
    /\ config \in [is_jar_input : BOOLEAN, shrink : BOOLEAN, crac : BOOLEAN]
    /\ pc = "new"
    /\ total = 0
    /\ current = 0
    /\ is_tty = FALSE
    /\ step = "none"
    /\ log = <<>>
    /\ temp_dir = "none"
    /\ crac_path = "unset"
    /\ result = "running"
    /\ errs = <<>>

BuildNext ==
    \/ NewPipeline
    \/ StartUseJar \/ FinishUseJar
    \/ StartDetect \/ DetectBuildSystem
    \/ StartBuild \/ BuildUberjar
    \/ StartShrink \/ NoShrink \/ ShrinkJar
    \/ ResolveJavaVersion
    \/ StartJdk \/ EnsureJdk
    \/ StartJdeps \/ TempDir \/ DetectModules
    \/ StartJlink \/ CreateRuntime
    \/ StartCrac \/ NoCrac \/ CreateCheckpoint \/ CheckpointMetadata
    \/ StartPack \/ CreateBinary \/ OutputMetadata
    \/ Finish

(***************************************************************************)
(* generate (pack/stub.rs) and the artifact layout                         *)
(***************************************************************************)

MaxPayloadLen == 12

\* Byte strings are TLA+ strings, one character per byte.
Digit(d) == SubSeq("0123456789", d + 1, d + 1)

\* Display of a u64 inside format!: decimal, no sign, no padding.
RECURSIVE ToDecimal(_)
ToDecimal(n) == IF n < 10 THEN Digit(n) ELSE ToDecimal(n \div 10) \o Digit(n % 10)

\* [String]::join
RECURSIVE Join(_, _)
Join(list, sep) ==
    IF Len(list) = 0 THEN ""
    ELSE IF Len(list) = 1 THEN list[1]
    ELSE list[1] \o sep \o Join(Tail(list), sep)

\* The leading space is written without looking at the list.
MutJvmArgsStr(jvm_args) == " " \o Join(jvm_args, " ")

jvm_args_str(jvm_args) == IF Len(jvm_args) = 0 THEN "" ELSE " " \o Join(jvm_args, " ")

\* The raw template of generate, split at its three placeholders.  A TLA+ string
\* cannot hold a grave accent: the one in the banner's third line is written as
\* an apostrophe (same length, inside the quoted here-document).
StubPrologue ==
    "#!/bin/sh\n"
    \o "set -e\n"
    \o "CACHE_ID=\""

StubCacheDir ==
    "\"\n"
    \o "CACHE_DIR=\"${HOME}/.jbundle/cache/${CACHE_ID}\"\n"
    \o "PAYLOAD_SIZE="

StubBody ==
    "\n"
    \o "\n"
    \o "cat >&2 <<'BANNER'\n"
    \o "   _ _                    _ _\n"
    \o "  (_) |__  _   _ _ __   __| | | ___\n"
    \o "  | | '_ \\| | | | '_ \\ / _' | |/ _ \\\n"
    \o "  | | |_) | |_| | | | | (_| | |  __/\n"
    \o " _/ |_.__/ \\__,_|_| |_|\\__,_|_|\\___|\n"
    \o "|__/\n"
    \o "BANNER\n"
    \o "\n"
    \o "if [ ! -d \"$CACHE_DIR/runtime\" ]; then\n"
    \o "    mkdir -p \"$CACHE_DIR\"\n"
    \o "    echo \"Extracting runtime (first run)...\" >&2\n"
    \o "    tail -c \"$PAYLOAD_SIZE\" \"$0\" | tar xzf - -C \"$CACHE_DIR\"\n"
    \o "fi\n"
    \o "\n"
    \o "exec \"$CACHE_DIR/runtime/bin/java\""

StubEpilogue ==
    " -jar \"$CACHE_DIR/app.jar\" \"$@\"\n"
    \o "exit 0\n"
    \o "# --- PAYLOAD BELOW ---\n"

\* The template loses its last line break.
MutGenerate(payload_hash, payload_size, jvm_args) ==
    StubPrologue \o payload_hash \o StubCacheDir \o ToDecimal(payload_size)
        \o StubBody \o jvm_args_str(jvm_args)
        \o SubSeq(StubEpilogue, 1, Len(StubEpilogue) - 1)

generate(payload_hash, payload_size, jvm_args) ==
    StubPrologue \o payload_hash \o StubCacheDir \o ToDecimal(payload_size)
        \o StubBody \o jvm_args_str(jvm_args) \o StubEpilogue

(***************************************************************************)
(* What /bin/sh and tail make of the artifact file                         *)
(***************************************************************************)

IsAt(text, pat, i) ==
    /\ i >= 1
    /\ i + Len(pat) - 1 <= Len(text)
    /\ SubSeq(text, i, i + Len(pat) - 1) = pat

\* The first position >= i where pat occurs in text; 0 when there is none.
Find(text, pat, i) ==
    LET hits == {k \in i..(Len(text) - Len(pat) + 1) : IsAt(text, pat, k)}
    IN IF hits = {} THEN 0 ELSE CHOOSE k \in hits : \A j \in hits : k <= j

\* The value the line `name=value` of the script assigns.
ShellAssigned(script, name) ==
    LET from == Find(script, "\n" \o name \o "=", 1) + Len(name) + 2
        to == Find(script, "\n", from)
    IN SubSeq(script, from, to - 1)

DigitValue(c) == CHOOSE d \in 0..9 : Digit(d) = c

\* tail's reading of its -c operand.
RECURSIVE ParseDecimal(_)
ParseDecimal(s) ==
    IF Len(s) = 0 THEN 0
    ELSE ParseDecimal(SubSeq(s, 1, Len(s) - 1)) * 10 + DigitValue(SubSeq(s, Len(s), Len(s)))

\* `tail -c +N`: from byte N to the end.
MutTailBytes(file, n) == IF n <= 1 THEN file ELSE SubSeq(file, n, Len(file))

\* `tail -c N`: the last N bytes of the file, all of it when it is shorter.
TailBytes(file, n) ==
    IF n >= Len(file) THEN file ELSE SubSeq(file, Len(file) - n + 1, Len(file))

\* pack::create_binary writes the stub, then the payload, and nothing else.
create_binary(stub_bytes, payload_bytes) == stub_bytes \o payload_bytes

Hashes == {"abc123", "deadbeef12345678", "abc"}
JvmArgs ==
    {<<>>, <<"-Xmx512m">>, <<"-Xmx512m", "-Dapp.env=prod">>, <<"-Dapp.env=prod", "-Xmx512m">>}
PayloadPatterns == {"\n", "#!", "0\n-"}

\* The pattern repeated and cut to n bytes.
RECURSIVE Fill(_, _)
Fill(pattern, n) ==
    IF n = 0 THEN ""
    ELSE IF n <= Len(pattern) THEN SubSeq(pattern, 1, n)
    ELSE pattern \o Fill(pattern, n - Len(pattern))

Payloads == {Fill(p, n) : p \in PayloadPatterns, n \in 0..MaxPayloadLen}

BuildIdle == UNCHANGED <<bvars, mvars, cvars>>

\* create_binary renders the stub for the payload it assembled.
Generate ==
    /\ spc = "assembled"
    /\ stub' = generate(hash, Len(payload), args)
    /\ spc' = "rendered"
    /\ UNCHANGED <<hash, args, payload, artifact, tail_out>>
    /\ BuildIdle /\ LauncherIdle

WriteArtifact ==
    /\ spc = "rendered"
    /\ artifact' = create_binary(stub, payload)
    /\ spc' = "written"
    /\ UNCHANGED <<hash, args, payload, stub, tail_out>>
    /\ BuildIdle /\ LauncherIdle

\* First run of the artifact: tail -c "$PAYLOAD_SIZE" "$0"
TailPayload ==
    /\ spc = "written"
    /\ tail_out' = TailBytes(artifact, ParseDecimal(ShellAssigned(artifact, "PAYLOAD_SIZE")))
    /\ spc' = "extracting"
    /\ UNCHANGED <<hash, args, payload, stub, artifact>>
    /\ BuildIdle /\ LauncherIdle

StubInit ==
    /\ spc = "assembled"
    /\ hash \in Hashes
    /\ args \in JvmArgs
    /\ payload \in Payloads
    /\ stub = ""
    /\ artifact = ""
    /\ tail_out = ""

StubOff ==
    /\ spc = "off"
    /\ hash = ""
    /\ args = <<>>
    /\ payload = ""
    /\ stub = ""
    /\ artifact = ""
    /\ tail_out = ""

StubNext == Generate \/ WriteArtifact \/ TailPayload

(***************************************************************************)
(* The generated stub at run time (stub.rs lines 10-31), run by /bin/sh    *)
(***************************************************************************)

Invocations == 2

Procs == 1..Invocations

\* What the stub looks for under "$CACHE_DIR".
Runtime == "runtime"
Java == "runtime/bin/java"
AppJar == "app.jar"
CacheDir == "cache_dir"

Members == {Runtime, Java, AppJar}
Entries == {CacheDir} \cup Members
IsDir(e) == e \in {CacheDir, Runtime}

\* The payload's members in any order tar can extract: a directory before
\* what it holds.
Archives ==
    {a \in [1..Cardinality(Members) -> Members] :
        /\ \A m \in Members : \E i \in DOMAIN a : a[i] = m
        /\ \A i, j \in DOMAIN a : (a[i] = Runtime /\ a[j] = Java) => i < j}

\* The keyed entry holds the whole runtime tree and app.jar.
Populated == \A e \in Entries : fs[e] = "full"

Visit(p, state) == ltrace' = [ltrace EXCEPT ![p] = Append(@, state)]

\* The artifact is started.
Invoke(p) ==
    /\ lpc[p] = "idle"
    /\ lpc' = [lpc EXCEPT ![p] = "check"]
    /\ UNCHANGED <<fs, archive, tarpos, ltrace, lview>>
    /\ BuildIdle /\ StubIdle

\* if [ ! -d "$CACHE_DIR/runtime" ]
Check(p) ==
    /\ lpc[p] = "check"
    /\ lpc' = [lpc EXCEPT ![p] = IF fs[Runtime] = "absent" THEN "mkdir" ELSE "exec"]
    /\ Visit(p, "Check")
    /\ UNCHANGED <<fs, archive, tarpos, lview>>
    /\ BuildIdle /\ StubIdle

\* set -e: a failing command ends the script.
ExitOnError(p) ==
    /\ lpc' = [lpc EXCEPT ![p] = "exit"]
    /\ Visit(p, "Failed")
    /\ UNCHANGED <<fs, archive, tarpos, lview>>

\* mkdir -p "$CACHE_DIR"
Mkdir(p) ==
    /\ lpc[p] = "mkdir"
    /\ \/ /\ fs' = [fs EXCEPT ![CacheDir] = "full"]
          /\ lpc' = [lpc EXCEPT ![p] = "tar"]
          /\ ltrace' = [ltrace EXCEPT ![p] = Append(@, "Extract")]
          /\ UNCHANGED <<archive, tarpos, lview>>
       \/ /\ lpc' = [lpc EXCEPT ![p] = "exit"]
          /\ ltrace' = [ltrace EXCEPT ![p] = @ \o <<"Extract", "Failed">>]
          /\ UNCHANGED <<fs, archive, tarpos, lview>>
    /\ BuildIdle /\ StubIdle

\* tar xzf - -C "$CACHE_DIR": the next member is created; a directory is
\* complete at once, a file is open and still short of its bytes.
TarMember(p) ==
    /\ lpc[p] = "tar"
    /\ tarpos[p] < Len(archive)
    /\ LET m == archive[tarpos[p] + 1] IN
        \/ /\ IsDir(m)
           /\ fs' = [fs EXCEPT ![m] = "full"]
           /\ tarpos' = [tarpos EXCEPT ![p] = @ + 1]
           /\ UNCHANGED lpc
        \/ /\ ~IsDir(m)
           /\ fs' = [fs EXCEPT ![m] = "partial"]
           /\ lpc' = [lpc EXCEPT ![p] = "tar_write"]
           /\ UNCHANGED tarpos
    /\ UNCHANGED <<archive, ltrace, lview>>
    /\ BuildIdle /\ StubIdle

\* tar has written the member's last byte.
TarWrite(p) ==
    /\ lpc[p] = "tar_write"
    /\ fs' = [fs EXCEPT ![archive[tarpos[p] + 1]] = "full"]
    /\ tarpos' = [tarpos EXCEPT ![p] = @ + 1]
    /\ lpc' = [lpc EXCEPT ![p] = "tar"]
    /\ UNCHANGED <<archive, ltrace, lview>>
    /\ BuildIdle /\ StubIdle

\* The pipeline ended with status 0: fi, then the exec line.
TarDone(p) ==
    /\ lpc[p] = "tar"
    /\ tarpos[p] = Len(archive)
    /\ lpc' = [lpc EXCEPT ![p] = "exec"]
    /\ UNCHANGED <<fs, archive, tarpos, ltrace, lview>>
    /\ BuildIdle /\ StubIdle

\* Without set -e the script goes on to the exec line.
MutTarFail(p) ==
    /\ lpc[p] \in {"tar", "tar_write"}
    /\ lpc' = [lpc EXCEPT ![p] = "exec"]
    /\ Visit(p, "Failed")
    /\ UNCHANGED <<fs, archive, tarpos, lview>>
    /\ BuildIdle /\ StubIdle

\* tar ends with a non-zero status (full disk, damaged payload, ...).
TarFail(p) ==
    /\ lpc[p] \in {"tar", "tar_write"}
    /\ ExitOnError(p)
    /\ BuildIdle /\ StubIdle

\* exec "$CACHE_DIR/runtime/bin/java" ...: the process becomes the JVM, or
\* the shell ends when there is no such file.
Exec(p) ==
    /\ lpc[p] = "exec"
    /\ lpc' = [lpc EXCEPT ![p] = IF fs[Java] = "absent" THEN "exit" ELSE "running"]
    /\ lview' = [lview EXCEPT ![p] = IF Populated THEN "populated" ELSE "partial"]
    /\ Visit(p, "Launch")
    /\ UNCHANGED <<fs, archive, tarpos>>
    /\ BuildIdle /\ StubIdle

\* The invocation is killed before it reached the JVM.
Kill(p) ==
    /\ lpc[p] \in {"check", "mkdir", "tar", "tar_write", "exec"}
    /\ lpc' = [lpc EXCEPT ![p] = "killed"]
    /\ UNCHANGED <<fs, archive, tarpos, ltrace, lview>>
    /\ BuildIdle /\ StubIdle

LauncherInit ==
    /\ fs = [e \in Entries |-> "absent"]
    /\ archive \in Archives
    /\ lpc = [p \in Procs |-> "idle"]
    /\ tarpos = [p \in Procs |-> 0]
    /\ ltrace = [p \in Procs |-> <<>>]
    /\ lview = [p \in Procs |-> "none"]

LauncherOff ==
    /\ fs = [e \in Entries |-> "absent"]
    /\ archive = <<>>
    /\ lpc = [p \in Procs |-> "off"]
    /\ tarpos = [p \in Procs |-> 0]
    /\ ltrace = [p \in Procs |-> <<>>]
    /\ lview = [p \in Procs |-> "none"]

LauncherNext ==
    \E p \in Procs :
        \/ Invoke(p)
        \/ Check(p)
        \/ Mkdir(p)
        \/ TarMember(p)
        \/ TarWrite(p)
        \/ TarDone(p)
        \/ TarFail(p)
        \/ Exec(p)
        \/ Kill(p)

BuildOff ==
    /\ config = [is_jar_input |-> TRUE, shrink |-> FALSE, crac |-> FALSE]
    /\ pc = "off"
    /\ total = 0
    /\ current = 0
    /\ is_tty = FALSE
    /\ step = "none"
    /\ log = <<>>
    /\ temp_dir = "none"
    /\ crac_path = "unset"
    /\ result = "running"
    /\ errs = <<>>

(***************************************************************************)
(* main (main.rs), Command::Build: the configuration is resolved from the  *)
(* command line and jbundle.toml, then run_build is called                 *)
(***************************************************************************)

\* Option<T>: None is <<>>, Some(v) is <<v>>.  Result<T>: Err is <<>>, Ok(v) is <<v>>.
None == <<>>
Some(v) == <<v>>
IsSome(o) == o # <<>>
Or(o, other) == IF IsSome(o) THEN o ELSE other
UnwrapOr(o, default) == IF IsSome(o) THEN o[1] ELSE default
Err == <<>>
Ok(v) == <<v>>
IsOk(r) == r # <<>>

\* project_config.as_ref().and_then(|c| c.field)
FileValue(pcfg, field) == IF IsSome(pcfg) THEN pcfg[1][field] ELSE None

\* The names Target::from_str and JvmProfile::from_str accept.
TargetNames == {"linux-x64", "linux-aarch64", "macos-x64", "macos-aarch64"}
ProfileNames == {"server", "native"}

TargetFromStr(t) == IF t \in TargetNames THEN Some(t) ELSE None
ProfileFromStr(p) == IF p \in ProfileNames THEN Some(p) ELSE None

\* let target = match target { .. }
ResolveTarget(c, pcfg, host_target) ==
    IF IsSome(c.target) THEN TargetFromStr(c.target[1])
    ELSE IF IsSome(FileValue(pcfg, "target")) THEN TargetFromStr(FileValue(pcfg, "target")[1])
    ELSE Some(host_target)

JavaVersionExplicit(c, pcfg) == IsSome(c.java_version) \/ IsSome(FileValue(pcfg, "java_version"))

\* The project file's version is preferred to the command line's.
MutResolveJavaVersionOption(c, pcfg) ==
    UnwrapOr(Or(FileValue(pcfg, "java_version"), c.java_version), 21)

ResolveJavaVersionOption(c, pcfg) ==
    UnwrapOr(Or(c.java_version, FileValue(pcfg, "java_version")), 21)

ResolveJvmArgs(c, pcfg) ==
    IF Len(c.jvm_args) = 0 THEN UnwrapOr(FileValue(pcfg, "jvm_args"), <<>>)
    ELSE c.jvm_args

\* flag || project_config.as_ref().and_then(|c| c.flag).unwrap_or(false)
EnableFlag(flag, pcfg, field) == flag \/ UnwrapOr(FileValue(pcfg, field), FALSE)

\* A profile name that is not known falls back to the default profile.
MutResolveProfile(c, pcfg) ==
    LET profile_str == UnwrapOr(Or(c.profile, FileValue(pcfg, "profile")), "server")
    IN Some(UnwrapOr(ProfileFromStr(profile_str), "server"))

ResolveProfile(c, pcfg) ==
    LET profile_str == UnwrapOr(Or(c.profile, FileValue(pcfg, "profile")), "server")
    IN ProfileFromStr(profile_str)

\* The project file's appcds is read before --no-appcds.
MutResolveAppcds(c, pcfg) ==
    IF IsSome(FileValue(pcfg, "appcds")) THEN FileValue(pcfg, "appcds")[1] ELSE ~c.no_appcds

ResolveAppcds(c, pcfg) ==
    IF c.no_appcds THEN FALSE ELSE UnwrapOr(FileValue(pcfg, "appcds"), TRUE)

\* BuildConfig { .. }
BuildConfigOf(c, pcfg, host_target) ==
    [input_ext |-> c.input_ext,
     java_version |-> ResolveJavaVersionOption(c, pcfg),
     java_version_explicit |-> JavaVersionExplicit(c, pcfg),
     target |-> ResolveTarget(c, pcfg, host_target)[1],
     jvm_args |-> ResolveJvmArgs(c, pcfg),
     shrink |-> EnableFlag(c.shrink, pcfg, "shrink"),
     profile |-> ResolveProfile(c, pcfg)[1],
     appcds |-> ResolveAppcds(c, pcfg),
     crac |-> EnableFlag(c.crac, pcfg, "crac"),
     compact_banner |-> EnableFlag(c.compact_banner, pcfg, "compact_banner")]

\* config.input.extension().is_some_and(|e| e == "jar")
IsJarInput(input_ext) == input_ext = Some("jar")

\* `?` in main before run_build is called.
MainErr ==
    /\ pc' = "done"
    /\ result' = "Err"
    /\ UNCHANGED <<config, total, current, is_tty, step, log, temp_dir, crac_path, errs>>
    /\ UNCHANGED mvars

\* The Command::Build arm up to the call of run_build.
MainBuild ==
    /\ pc = "main"
    /\ \/ /\ ~IsOk(project_config)
          /\ MainErr
       \/ /\ IsOk(project_config)
          /\ ResolveTarget(cli, project_config[1], host) = None
          /\ MainErr
       \/ /\ IsOk(project_config)
          /\ ResolveTarget(cli, project_config[1], host) # None
          /\ ResolveProfile(cli, project_config[1]) = None
          /\ MainErr
       \/ /\ IsOk(project_config)
          /\ ResolveTarget(cli, project_config[1], host) # None
          /\ ResolveProfile(cli, project_config[1]) # None
          /\ resolved' = Some(BuildConfigOf(cli, project_config[1], host))
          /\ config' = [is_jar_input |-> IsJarInput(resolved'[1].input_ext),
                        shrink |-> resolved'[1].shrink,
                        crac |-> resolved'[1].crac]
          /\ pc' = "new"
          /\ UNCHANGED <<total, current, is_tty, step, log, temp_dir, crac_path, result, errs>>
          /\ UNCHANGED <<cli, project_config, host>>
    /\ LauncherIdle /\ StubIdle /\ CleanIdle

\* What the command line and jbundle.toml can hold.
CliOptions ==
    [target : {None, Some("linux-x64"), Some("windows-x64")},
     java_version : {None, Some(17)},
     jvm_args : {<<>>, <<"-Xmx512m">>},
     profile : {None, Some("native"), Some("fastest")}]

FileOptions ==
    [target : {None, Some("macos-aarch64"), Some("solaris")},
     java_version : {None, Some(11)},
     jvm_args : {None, Some(<<"-Dapp.env=prod">>)},
     profile : {None, Some("server"), Some("tiny")}]

CliFlags == [shrink : BOOLEAN, crac : BOOLEAN, compact_banner : BOOLEAN, no_appcds : BOOLEAN]

FileFlags ==
    [shrink : {None, Some(FALSE), Some(TRUE)},
     crac : {None, Some(FALSE), Some(TRUE)},
     compact_banner : {None, Some(FALSE), Some(TRUE)},
     appcds : {None, Some(FALSE), Some(TRUE)}]

NoCliOptions == [target |-> None, java_version |-> None, jvm_args |-> <<>>, profile |-> None]
NoFileOptions == [target |-> None, java_version |-> None, jvm_args |-> None, profile |-> None]
NoCliFlags == [shrink |-> FALSE, crac |-> FALSE, compact_banner |-> FALSE, no_appcds |-> FALSE]
NoFileFlags == [shrink |-> None, crac |-> None, compact_banner |-> None, appcds |-> None]

Merge(a, b) == [f \in (DOMAIN a) \cup (DOMAIN b) |-> IF f \in DOMAIN a THEN a[f] ELSE b[f]]

\* The command lines: every combination of the options with no flag given, and
\* every combination of the flags with no option given.
CommandLines ==
    {Merge(Merge(o, NoCliFlags), [input_ext |-> e]) : o \in CliOptions, e \in {Some("jar"), None}}
    \cup {Merge(Merge(NoCliOptions, f), [input_ext |-> e]) : f \in CliFlags, e \in {Some("jar"), None}}

\* What load_project_config returns: an error, no file, or the file's values.
ProjectConfigs ==
    {Err, Ok(None)}
    \cup {Ok(Some(Merge(o, NoFileFlags))) : o \in FileOptions}
    \cup {Ok(Some(Merge(NoFileOptions, f))) : f \in FileFlags}

MainInit ==
    /\ cli \in CommandLines
    /\ project_config \in ProjectConfigs
    /\ host \in {"linux-aarch64"}
    /\ resolved = None
    /\ config = [is_jar_input |-> FALSE, shrink |-> FALSE, crac |-> FALSE]
    /\ pc = "main"
    /\ total = 0
    /\ current = 0
    /\ is_tty = FALSE
    /\ step = "none"
    /\ log = <<>>
    /\ temp_dir = "none"
    /\ crac_path = "unset"
    /\ result = "running"
    /\ errs = <<>>

MainOff ==
    /\ cli = None
    /\ project_config = None
    /\ host = ""
    /\ resolved = None

(***************************************************************************)
(* run_clean (main.rs) and the cache root.  The cache root is a directory  *)
(* tree of regular files, directories and symbolic links (a jlink runtime  *)
(* image holds symbolic links among its legal notices, and tar recreates   *)
(* them in the launcher's cache).                                          *)
(***************************************************************************)

MaxEntries == 3     \* entries under the cache root
MaxCleans == 2      \* invocations of `jbundle clean`
CacheNames == {"a", "b"}
FileLens == {1, 2}

Root == <<>>
Outside == <<"..">>      \* a link target that does not exist

Entry(path, kind, len, to) == [path |-> path, kind |-> kind, len |-> len, to |-> to]
PathsOf(d) == {e.path : e \in d}
PathExists(d, p) == p \in PathsOf(d)
EntryAt(d, p) == CHOOSE e \in d : e.path = p

\* std::fs::read_dir(path): the entries directly under path.
ReadDir(d, p) ==
    {e \in d : Len(e.path) = Len(p) + 1 /\ SubSeq(e.path, 1, Len(p)) = p}

\* What Path::is_dir and Path::metadata look at: they follow a symbolic link.
Followed(d, e) ==
    IF e.kind # "link" THEN e
    ELSE IF PathExists(d, e.to) THEN EntryAt(d, e.to)
    ELSE Entry(e.to, "missing", 0, <<>>)

RECURSIVE walkdir(_, _)
RECURSIVE SumSizes(_, _)
\* One turn of the loop in walkdir.
EntrySize(d, e) ==
    LET t == Followed(d, e)
    IN IF t.kind = "dir" THEN walkdir(d, t.path)
       ELSE IF t.kind = "file" THEN t.len
       ELSE 0

SumSizes(d, es) ==
    IF es = {} THEN 0
    ELSE LET e == CHOOSE x \in es : TRUE
         IN EntrySize(d, e) + SumSizes(d, es \ {e})

walkdir(d, p) == SumSizes(d, ReadDir(d, p))

dir_size(d, p) == walkdir(d, p)

RECURSIVE SumLens(_)
SumLens(es) ==
    IF es = {} THEN 0
    ELSE LET e == CHOOSE x \in es : TRUE
         IN e.len + SumLens(es \ {e})

\* The bytes std::fs::remove_dir_all unlinks: it removes a symbolic link
\* itself and does not follow it.
BytesFreed(d) == SumLens({e \in d : e.kind = "file"})

\* A tree that remains when remove_dir_all fails part way.
PartlyRemoved(d) ==
    {r \in SUBSET d :
        /\ PathExists(r, Root)
        /\ \A e \in r : e.path # Root => PathExists(r, SubSeq(e.path, 1, Len(e.path) - 1))}

\* remove_dir_all leaves the cache root as an empty directory.
MutRemoveDirAll(d) == {e \in d : e.path = Root}

remove_dir_all(d) == {}

CleanEvent(res, out, size, freed, existed) ==
    [ev |-> "clean", result |-> res, out |-> out, size |-> size, freed |-> freed,
     existed |-> existed]

\* A build or a launcher writes to the cache: creates the cache root, or a
\* file, directory or symbolic link in a directory of it.
Populate ==
    /\ Cardinality(disk) <= MaxEntries
    /\ \/ /\ disk = {}
          /\ disk' = {Entry(Root, "dir", 0, <<>>)}
       \/ /\ disk # {}
          /\ \E parent \in {e \in disk : e.kind = "dir"}, n \in CacheNames :
                LET p == Append(parent.path, n) IN
                /\ Len(p) <= 2
                /\ ~PathExists(disk, p)
                /\ \/ \E l \in FileLens : disk' = disk \cup {Entry(p, "file", l, <<>>)}
                   \/ disk' = disk \cup {Entry(p, "dir", 0, <<>>)}
                   \/ \E t \in {e.path : e \in {x \in disk : x.kind = "file"}} \cup {Outside} :
                          disk' = disk \cup {Entry(p, "link", 0, t)}
    /\ clog' = IF clog # <<>> /\ clog[Len(clog)].ev = "populate" THEN clog
               ELSE Append(clog, [ev |-> "populate"])
    /\ UNCHANGED home
    /\ UNCHANGED <<bvars, mvars>> /\ LauncherIdle /\ StubIdle

Cleans == Len(SelectSeq(clog, LAMBDA e : e.ev = "clean"))

\* run_clean
RunClean ==
    /\ Cleans < MaxCleans
    /\ \/ /\ ~home
          /\ clog' = Append(clog, CleanEvent("Err", "none", 0, 0, PathExists(disk, Root)))
          /\ UNCHANGED disk
       \/ /\ home
          /\ PathExists(disk, Root)
          /\ LET size == dir_size(disk, Root) IN
             \/ /\ disk' = remove_dir_all(disk)
                /\ clog' = Append(clog, CleanEvent("Ok", "Cleaned", size,
                                                   BytesFreed(disk) - BytesFreed(disk'), TRUE))
             \/ /\ disk' \in PartlyRemoved(disk)
                /\ clog' = Append(clog, CleanEvent("Err", "none", size,
                                                   BytesFreed(disk) - BytesFreed(disk'), TRUE))
       \/ /\ home
          /\ ~PathExists(disk, Root)
          /\ clog' = Append(clog, CleanEvent("Ok", "Cache is already empty", 0, 0, FALSE))
          /\ UNCHANGED disk
    /\ UNCHANGED home
    /\ UNCHANGED <<bvars, mvars>> /\ LauncherIdle /\ StubIdle

CleanInit ==
    /\ home \in BOOLEAN
    /\ disk = {}
    /\ clog = <<>>

CleanOff ==
    /\ home = FALSE
    /\ disk = {}
    /\ clog = <<>>

CleanNext == Populate \/ RunClean

(***************************************************************************)
(* Specifications                                                          *)
(***************************************************************************)

Init == BuildInit /\ LauncherOff /\ StubOff /\ MainOff /\ CleanOff
Next == BuildNext
Spec == Init /\ [][Next]_vars

InitLauncher == LauncherInit /\ BuildOff /\ StubOff /\ MainOff /\ CleanOff
SpecLauncher == InitLauncher /\ [][LauncherNext]_vars

InitStub == StubInit /\ BuildOff /\ LauncherOff /\ MainOff /\ CleanOff

InitMain == MainInit /\ LauncherOff /\ StubOff /\ CleanOff

InitClean == CleanInit /\ BuildOff /\ LauncherOff /\ StubOff /\ MainOff
SpecClean == InitClean /\ [][CleanNext]_vars
SpecMain == InitMain /\ [][MainBuild \/ BuildNext]_vars
SpecStub == InitStub /\ [][StubNext]_vars

(***************************************************************************)
(* Properties of run_build, checked under Spec                             *)
(***************************************************************************)

IsStart(e) == e[1] = "start"

\* The start_step events written so far: <<"start", name, current, total, is_tty>>.
Starts == SelectSeq(log, IsStart)

BannerWritten == \E k \in 1..Len(log) : log[k][1] = "finish"

\* C1: for each of the 8 combinations of (is_jar_input, shrink, crac) the total
\* that calculate_steps returns is (1 if is_jar_input else 2) + (1 if shrink
\* else 0) + 4 + (1 if crac else 0); (true, false, false) gives 5 and
\* (false, true, true) gives 8.
C1_StageCount ==
    pc \notin {"new", "off"} =>
        /\ total = (IF config.is_jar_input THEN 1 ELSE 2)
                   + (IF config.shrink THEN 1 ELSE 0) + 4
                   + (IF config.crac THEN 1 ELSE 0)
        /\ (config = [is_jar_input |-> TRUE, shrink |-> FALSE, crac |-> FALSE] => total = 5)
        /\ (config = [is_jar_input |-> FALSE, shrink |-> TRUE, crac |-> TRUE] => total = 8)

C1_Witness ==
    /\ pc = "archive"
    /\ config = [is_jar_input |-> FALSE, shrink |-> TRUE, crac |-> TRUE]
    /\ total = 8

\* C2: when a call of any stage but the checkpoint stage returns Err, run_build
\* is over at once with Err: nothing more is written (no later start_step, no
\* closing banner), the failing stage is the last one started, and no other
\* call fails after it.
C2_FatalStageAborts ==
    \A i \in 1..Len(errs) :
        errs[i].stage # CracStage =>
            /\ i = Len(errs)
            /\ pc = "done"
            /\ result = "Err"
            /\ Len(log) = errs[i].at
            /\ ~BannerWritten
            /\ (errs[i].stage # "none" =>
                   /\ Len(Starts) > 0
                   /\ Starts[Len(Starts)][2] = errs[i].stage
                   /\ current = Starts[Len(Starts)][3])

C2_Witness ==
    /\ result = "Err"
    /\ Len(errs) = 1
    /\ errs[1].call = "shrink_jar"
    /\ errs[1].stage = ShrinkStage
    /\ OpenStage = ShrinkStage

\* C3: a failure of any call between the checkpoint stage's start_step and its
\* finish_step is caught there: the stage is finished as "skipped", packing
\* gets no checkpoint (crac_path is None), and the run is not aborted by it.
C3_CheckpointFailureCaught ==
    \A i \in 1..Len(errs) :
        errs[i].stage = CracStage =>
            /\ Len(log) > errs[i].at
            /\ log[errs[i].at + 1] = <<"finish_step", CracStage, "skipped">>
            /\ crac_path = "None"
            /\ (result = "Err" => i < Len(errs))

\* C4: the labels of the stages started are [1/total], [2/total], ... with
\* 1 <= current <= total and total = calculate_steps(..) throughout, and a run
\* that returns Ok (also one whose checkpoint stage was skipped) has started
\* exactly total stages.
C4_Labels ==
    LET expected == calculate_steps(config.is_jar_input, config.shrink, config.crac) IN
    /\ \A i \in 1..Len(Starts) :
          /\ Starts[i][3] = i
          /\ Starts[i][4] = expected
          /\ 1 <= Starts[i][3]
          /\ Starts[i][3] <= Starts[i][4]
    /\ (pc \notin {"new", "off"} => total = expected)
    /\ current = Len(Starts)
    /\ (result = "Ok" => Len(Starts) = expected /\ current = total)

C4_Witness ==
    /\ result = "Ok"
    /\ config = [is_jar_input |-> FALSE, shrink |-> TRUE, crac |-> TRUE]
    /\ Len(errs) = 1
    /\ errs[1].call = "create_checkpoint"
    /\ Len(Starts) = 8

\* C5: the stages started are, in order, an initial part of: archive
\* acquisition (use the JAR, or detect then build), shrink if enabled, JDK
\* download, module analysis, jlink, checkpoint if enabled, packing; none
\* twice.  A pre-built JAR without shrink and checkpoint that returns Ok has
\* started exactly [1/5] use JAR, [2/5] JDK, [3/5] modules, [4/5] jlink,
\* [5/5] packing.
C5_StageOrder ==
    LET order == (IF config.is_jar_input THEN <<UseJar>> ELSE <<Detect, BuildJar>>)
                 \o (IF config.shrink THEN <<ShrinkStage>> ELSE <<>>)
                 \o <<JdkStage, JdepsStage, JlinkStage>>
                 \o (IF config.crac THEN <<CracStage>> ELSE <<>>)
                 \o <<PackStage>>
        names == [i \in 1..Len(Starts) |-> Starts[i][2]]
        labels == [i \in 1..Len(Starts) |-> <<Starts[i][2], Starts[i][3], Starts[i][4]>>]
    IN
    /\ Len(names) <= Len(order)
    /\ names = SubSeq(order, 1, Len(names))
    /\ (result = "Ok" => names = order)
    /\ (/\ result = "Ok"
        /\ config = [is_jar_input |-> TRUE, shrink |-> FALSE, crac |-> FALSE])
       => labels = << <<UseJar, 1, 5>>, <<JdkStage, 2, 5>>, <<JdepsStage, 3, 5>>,
                      <<JlinkStage, 4, 5>>, <<PackStage, 5, 5>> >>

C5_Witness ==
    /\ result = "Ok"
    /\ config = [is_jar_input |-> TRUE, shrink |-> FALSE, crac |-> FALSE]
    /\ Len(Starts) = 5
    /\ BannerWritten

(***************************************************************************)
(* Properties of the generated stub at run time, checked under             *)
(* SpecLauncher                                                            *)
(***************************************************************************)

Extracting(p) == lpc[p] \in {"tar", "tar_write"}

\* C6: whenever no invocation is in the middle of its tar, also after one was
\* killed or failed there, the marker directory "$CACHE_DIR/runtime" exists
\* only if the keyed entry holds the complete runtime tree and app.jar.
C6_MarkerMeansPopulated ==
    (\A p \in Procs : ~Extracting(p)) => (fs[Runtime] # "absent" => Populated)

\* C7: with no invocation killed and no command failing, whatever the
\* interleaving of the invocations, none reaches the exec line while the keyed
\* entry is only partly extracted.
C7_NoLaunchFromPartial ==
    (\A p \in Procs : lpc[p] # "killed" /\ (\A k \in 1..Len(ltrace[p]) : ltrace[p][k] # "Failed"))
        => (\A p \in Procs : lview[p] # "partial")

\* C8: an invocation goes Check -> Launch or Check -> Extract -> Launch and
\* nothing else: Extract and Launch at most once, never back to Check or
\* Extract, and a failed Extract ends the invocation without Launch.
C8_TwoPaths ==
    \A p \in Procs :
        /\ ltrace[p] \in {<<>>, <<"Check">>, <<"Check", "Launch">>,
                          <<"Check", "Extract">>, <<"Check", "Extract", "Launch">>,
                          <<"Check", "Extract", "Failed">>}
        /\ (lpc[p] = "running" => ltrace[p][Len(ltrace[p])] = "Launch")
        /\ (Extracting(p) => ltrace[p] = <<"Check", "Extract">>)
        /\ (ltrace[p] = <<"Check", "Extract", "Failed">> => lpc[p] = "exit" /\ lview[p] = "none")

C8_Witness ==
    \E p, q \in Procs :
        /\ ltrace[p] = <<"Check", "Extract", "Launch">> /\ lpc[p] = "running"
        /\ ltrace[q] = <<"Check", "Launch">> /\ lpc[q] = "running"
        /\ lview[p] = "populated" /\ lview[q] = "populated"

(***************************************************************************)
(* Properties of generate and the artifact layout, checked under SpecStub  *)
(***************************************************************************)

\* C9: the artifact is the stub followed by the payload and nothing else (its
\* length is the stub's plus the payload's), and the bytes that
\* tail -c "$PAYLOAD_SIZE" "$0" reads from it are exactly the payload.
C9_PayloadRoundTrip ==
    /\ spc \in {"written", "extracting"} =>
          /\ Len(artifact) = Len(stub) + Len(payload)
          /\ SubSeq(artifact, 1, Len(stub)) = stub
    /\ spc = "extracting" => tail_out = payload

C9_Witness ==
    /\ spc = "extracting"
    /\ Len(payload) = MaxPayloadLen
    /\ payload = Fill("0\n-", MaxPayloadLen)
    /\ tail_out = payload
    /\ args = <<"-Xmx512m", "-Dapp.env=prod">>

\* C10: the text generate returns starts with the line #!/bin/sh, holds
\* CACHE_ID="<payload_hash>" and the line PAYLOAD_SIZE=<payload_size> (the
\* size in decimal), and ends with the line # --- PAYLOAD BELOW --- and its
\* line break.
C10_StubText ==
    LET decimals == <<"0", "1", "2", "3", "4", "5", "6", "7", "8", "9", "10", "11",
                      "12", "13", "14", "15", "16", "17", "18", "19", "20">>
        marker == "\n# --- PAYLOAD BELOW ---\n"
    IN
    spc \in {"rendered", "written", "extracting"} =>
        /\ IsAt(stub, "#!/bin/sh\n", 1)
        /\ Find(stub, "CACHE_ID=\"" \o hash \o "\"", 1) > 0
        /\ Find(stub, "\nPAYLOAD_SIZE=" \o decimals[Len(payload) + 1] \o "\n", 1) > 0
        /\ IsAt(stub, marker, Len(stub) - Len(marker) + 1)

C10_Witness ==
    /\ spc = "rendered"
    /\ hash = "deadbeef12345678"
    /\ Len(payload) = MaxPayloadLen
    /\ args = <<"-Xmx512m">>
    /\ Len(stub) > 0

\* C11: the exec line of the stub is, in this order and separated by single
\* spaces: exec, the runtime binary "$CACHE_DIR/runtime/bin/java", the extra
\* runtime arguments in the order given, -jar "$CACHE_DIR/app.jar", "$@".
\* With no extra arguments the binary is followed by one space and -jar.
C11_ExecLine ==
    LET java == "exec \"$CACHE_DIR/runtime/bin/java\""
        rest == <<"-jar", "\"$CACHE_DIR/app.jar\"", "\"$@\"">>
        line == "\n" \o Join(<<java>> \o args \o rest, " ") \o "\n"
        at == Find(stub, "\nexec ", 1)
    IN
    spc \in {"rendered", "written", "extracting"} =>
        /\ at > 0
        /\ IsAt(stub, line, at)
        /\ Find(stub, "\nexec ", at + 1) = 0
        /\ (args = <<>> =>
               IsAt(stub, "\nexec \"$CACHE_DIR/runtime/bin/java\" -jar \"$CACHE_DIR/app.jar\" \"$@\"\n", at))
        /\ (args = <<"-Xmx512m", "-Dapp.env=prod">> =>
               IsAt(stub, "\nexec \"$CACHE_DIR/runtime/bin/java\" -Xmx512m -Dapp.env=prod -jar \"$CACHE_DIR/app.jar\" \"$@\"\n", at))
        /\ (args = <<"-Dapp.env=prod", "-Xmx512m">> =>
               IsAt(stub, "\nexec \"$CACHE_DIR/runtime/bin/java\" -Dapp.env=prod -Xmx512m -jar \"$CACHE_DIR/app.jar\" \"$@\"\n", at))

C11_Witness ==
    /\ spc = "rendered"
    /\ args = <<"-Dapp.env=prod", "-Xmx512m">>
    /\ Find(stub, "java\" -Dapp.env=prod -Xmx512m -jar ", 1) > 0

\* The value of a project-file field as main sees it (absent when there is no
\* project file) in a state where load_project_config succeeded.
InFile(field) ==
    IF project_config[1] = None THEN None ELSE project_config[1][1][field]

\* C12: whenever main has built the BuildConfig, each non-boolean option is the
\* command line's value if one was supplied, else the project file's value if
\* present, else the default (java version 21, profile "server", target the
\* host platform, jvm args empty); and java_version_explicit is true exactly
\* when the command line or the project file supplied a java version.
C12_NonBooleanPrecedence ==
    resolved # None =>
        LET r == resolved[1] IN
        /\ r.target = IF cli.target # None THEN cli.target[1]
                      ELSE IF InFile("target") # None THEN InFile("target")[1]
                      ELSE host
        /\ r.java_version = IF cli.java_version # None THEN cli.java_version[1]
                            ELSE IF InFile("java_version") # None THEN InFile("java_version")[1]
                            ELSE 21
        /\ r.jvm_args = IF cli.jvm_args # <<>> THEN cli.jvm_args
                        ELSE IF InFile("jvm_args") # None THEN InFile("jvm_args")[1]
                        ELSE <<>>
        /\ r.profile = IF cli.profile # None THEN cli.profile[1]
                       ELSE IF InFile("profile") # None THEN InFile("profile")[1]
                       ELSE "server"
        /\ r.java_version_explicit <=> (cli.java_version # None \/ InFile("java_version") # None)

\* Both sides supplied a java version, jvm args and a profile, and the build
\* was configured with the command line's.
C12_Witness ==
    /\ resolved # None
    /\ cli.java_version = Some(17) /\ InFile("java_version") = Some(11)
    /\ cli.jvm_args = <<"-Xmx512m">> /\ InFile("jvm_args") = Some(<<"-Dapp.env=prod">>)
    /\ cli.profile = Some("native") /\ InFile("profile") = Some("server")
    /\ cli.target = None /\ InFile("target") = Some("macos-aarch64")
    /\ resolved[1].java_version = 17
    /\ resolved[1].target = "macos-aarch64"

\* C13: whenever main has built the BuildConfig, shrink, crac and
\* compact_banner are each the command-line flag OR the project file's value
\* (false when neither is set); appcds is false whenever --no-appcds was given,
\* whatever the project file says, otherwise the project file's value if
\* present, otherwise true.
C13_BooleanResolution ==
    resolved # None =>
        LET r == resolved[1] IN
        /\ r.shrink <=> (cli.shrink \/ InFile("shrink") = Some(TRUE))
        /\ r.crac <=> (cli.crac \/ InFile("crac") = Some(TRUE))
        /\ r.compact_banner <=> (cli.compact_banner \/ InFile("compact_banner") = Some(TRUE))
        /\ (cli.no_appcds => ~r.appcds)
        /\ (~cli.no_appcds /\ InFile("appcds") # None => (r.appcds <=> InFile("appcds")[1]))
        /\ (~cli.no_appcds /\ InFile("appcds") = None => r.appcds)

\* --no-appcds against a project file that enables appcds, and a project file
\* that enables shrink without the --shrink flag.
C13_Witness ==
    /\ resolved # None
    /\ cli.no_appcds /\ InFile("appcds") = Some(TRUE) /\ ~resolved[1].appcds
    /\ ~cli.shrink /\ InFile("shrink") = Some(TRUE) /\ resolved[1].shrink
    /\ cli.crac /\ InFile("crac") = Some(FALSE) /\ resolved[1].crac

\* The target and profile strings main hands to from_str, <<>> when the
\* default is used instead.
UsedTarget == IF cli.target # None THEN cli.target ELSE InFile("target")
UsedProfile == IF cli.profile # None THEN cli.profile ELSE InFile("profile")

InvalidConfiguration ==
    /\ IsOk(project_config)
    /\ \/ UsedTarget # None /\ UsedTarget[1] \notin TargetNames
       \/ UsedProfile # None /\ UsedProfile[1] \notin ProfileNames

\* C14: when the target or profile string main uses (the command line's, or
\* the project file's when the command line gives none) is invalid, the build
\* command fails before any stage starts: run_build is not called, no Pipeline
\* is constructed, start_step is never called, and main returns an error.
C14_InvalidConfigurationFatal ==
    InvalidConfiguration =>
        /\ pc \in {"main", "done"}
        /\ resolved = None
        /\ total = 0 /\ current = 0 /\ step = "none"
        /\ log = <<>>
        /\ (pc = "done" => result = "Err")

\* main returned an error for a profile name taken from the project file,
\* the target being a valid one from the command line.
C14_Witness ==
    /\ pc = "done" /\ result = "Err"
    /\ IsOk(project_config)
    /\ cli.target = Some("linux-x64")
    /\ cli.profile = None /\ InFile("profile") = Some("tiny")
    /\ log = <<>>

IsOkClean(e) == e.ev = "clean" /\ e.result = "Ok"

\* What run_clean does apart from the number it reports: a cache root that
\* exists is removed entirely, one that does not is reported as already empty
\* with nothing removed, and a run_clean directly after a successful one
\* reports "already empty".
CleanIdempotent ==
    \A i \in 1..Len(clog) :
        IsOkClean(clog[i]) =>
            /\ (clog[i].existed => clog[i].out = "Cleaned")
            /\ (~clog[i].existed =>
                    clog[i].out = "Cache is already empty" /\ clog[i].freed = 0)
            /\ (i = Len(clog) => disk = {})
            /\ (i < Len(clog) /\ clog[i + 1].ev = "clean" =>
                    clog[i + 1].result = "Ok" /\ clog[i + 1].out = "Cache is already empty")

\* C15: run_clean removes an existing cache root entirely and reports the
\* bytes freed; reports "already empty" and removes nothing when there is no
\* cache root; and after a successful run_clean the cache root does not exist,
\* so that a second run_clean directly after reports "already empty".
C15_CleanContract ==
    /\ CleanIdempotent
    /\ \A i \in 1..Len(clog) :
          IsOkClean(clog[i]) /\ clog[i].existed => clog[i].size = clog[i].freed

\* Two successful run_clean in a row, the first on a cache that held data.
C15_Witness ==
    /\ Len(clog) >= 3
    /\ IsOkClean(clog[Len(clog) - 1]) /\ clog[Len(clog) - 1].freed > 0
    /\ IsOkClean(clog[Len(clog)]) /\ clog[Len(clog)].out = "Cache is already empty"

\* The positions of run_build between the creation of the temporary directory
\* and the return.
AfterTempDir ==
    {"jdeps", "jlink_start", "jlink", "crac_branch", "crac", "crac_meta",
     "pack_start", "pack", "pack_meta", "finish"}

LastFailure == errs[Len(errs)].call

\* C16: the temporary directory created in the module-analysis stage exists
\* from its creation until run_build returns, so all through jlink, the
\* checkpoint stage and packing; and it is removed once run_build has
\* returned, with Ok or with the error of module analysis, jlink, the
\* checkpoint stage or packing.  A run that returns before creating it has none.
C16_TempDirScoped ==
    /\ (pc \in AfterTempDir => temp_dir = "live")
    /\ (pc = "done" /\ result = "Ok" => temp_dir = "removed")
    /\ (pc = "done" /\ result = "Err" =>
            IF LastFailure \in {"detect_modules", "create_runtime", "checkpoint metadata",
                                "create_binary", "output metadata"}
            THEN temp_dir = "removed"
            ELSE temp_dir = "none")
    /\ (pc \notin AfterTempDir \cup {"done"} => temp_dir = "none")

\* run_build returned the error of the packing stage and the directory is gone.
C16_Witness ==
    /\ pc = "done" /\ result = "Err"
    /\ LastFailure = "create_binary"
    /\ temp_dir = "removed"

\* The stage in which run_build makes each fallible call; resolve_java_version
\* is called between two stages.
StageOfCall ==
    [detect_build_system |-> Detect, build_uberjar |-> BuildJar, shrink_jar |-> ShrinkStage,
     resolve_java_version |-> "none", ensure_jdk |-> JdkStage, tempdir |-> JdepsStage,
     detect_modules |-> JdepsStage, create_runtime |-> JlinkStage,
     create_checkpoint |-> CracStage, create_binary |-> PackStage]

StageOf(call) ==
    IF call = "checkpoint metadata" THEN CracStage
    ELSE IF call = "output metadata" THEN PackStage
    ELSE StageOfCall[call]

IsFinishStep(e) == e[1] = "finish_step"
FinishSteps == SelectSeq(log, IsFinishStep)

\* C17: stages run strictly one after another.  At every point at most one
\* stage is started and not finished; a stage is started only when the stage
\* started before it has been finished by finish_step on its own handle; and
\* when a call of a stage fails fatally, that stage is the open one, the last
\* thing written is its start, and it is never reported as finished.
C17_Sequential ==
    /\ Len(Starts) - Len(FinishSteps) \in {0, 1}
    /\ \A i \in 1..Len(log) :
          /\ IsStart(log[i]) => (i = 1 \/ IsFinishStep(log[i - 1]))
          /\ IsFinishStep(log[i]) =>
                i > 1 /\ IsStart(log[i - 1]) /\ log[i - 1][2] = log[i][2]
    /\ (pc = "done" /\ result = "Err" =>
            IF StageOf(LastFailure) = "none"
            THEN Len(Starts) = Len(FinishSteps)
            ELSE /\ IsStart(log[Len(log)])
                 /\ log[Len(log)][2] = StageOf(LastFailure)
                 /\ Len(Starts) = Len(FinishSteps) + 1)

\* jlink failed after four stages were started and finished in turn.
C17_Witness ==
    /\ pc = "done" /\ result = "Err"
    /\ LastFailure = "create_runtime"
    /\ Len(FinishSteps) >= 4
    /\ log[Len(log)][2] = JlinkStage

IsFinish(e) == e[1] = "finish"
Finishes == SelectSeq(log, IsFinish)

\* C18: the closing banner is written at most once in a run; when it is
\* written, it is the last thing written, directly after finish_step of the
\* packing stage, which was started as stage total of total; and it is never
\* written in a run in which a stage failed fatally.
C18_FinishOnce ==
    /\ Len(Finishes) <= 1
    /\ \A i \in 1..Len(log) :
          IsFinish(log[i]) =>
              /\ i = Len(log) /\ i > 2
              /\ IsFinishStep(log[i - 1]) /\ log[i - 1][2] = PackStage
              /\ IsStart(log[i - 2]) /\ log[i - 2][2] = PackStage /\ log[i - 2][3] = total
              /\ current = total
              /\ pc = "done" /\ result = "Ok"
    /\ (result = "Err" => Len(Finishes) = 0)
    /\ (pc = "done" /\ result = "Ok" => Len(Finishes) = 1)

\* A run with every optional stage ended with the banner, after a checkpoint
\* failure that was not fatal.
C18_Witness ==
    /\ pc = "done" /\ result = "Ok"
    /\ Len(Finishes) = 1
    /\ total = 8
    /\ Len(errs) = 1

\* What was written in this step, if anything.
Written == IF Len(log') = Len(log) + 1 THEN log'[Len(log')] ELSE <<"nothing">>

\* The Pipeline's fields in a step of the program.
PipelineStep ==
    /\ (pc = "new" => current' = 0 /\ log' = log)
    /\ (pc # "new" => total' = total /\ is_tty' = is_tty)
    /\ (pc # "new" /\ Written[1] = "start" =>
            current' = current + 1 /\ Written[3] = current' /\ Written[4] = total
            /\ Written[5] = is_tty)
    /\ (pc # "new" /\ Written[1] # "start" => current' = current)
    /\ (Written[1] = "finish" => Written[2] = is_tty)

\* Every stage and the banner were rendered with the Pipeline's total and mode.
PipelineSeen ==
    /\ \A k \in 1..Len(Starts) :
          Starts[k][3] = k /\ Starts[k][4] = total /\ Starts[k][5] = is_tty
    /\ \A k \in 1..Len(Finishes) : Finishes[k][2] = is_tty
    /\ current = Len(Starts)

\* C19: Pipeline::new sets current to 0 and fixes total and the rendering
\* mode; each start_step adds exactly 1 to current and leaves total and the
\* mode alone; finish_step and finish change none of the three; so every
\* stage and the closing banner are rendered with the total and the mode the
\* first stage saw.
C19_PipelineFrame == [][PipelineStep]_vars /\ []PipelineSeen

\* A run on a terminal wrote all eight stages and the banner.
C19_Witness ==
    /\ pc = "done" /\ result = "Ok"
    /\ is_tty /\ total = 8 /\ current = 8
    /\ Len(Starts) = 8 /\ Len(Finishes) = 1

====
